---- MODULE Spec2Model ----
(***************************************************************************)
(* LitXplore backend: the review task tracker (TaskService and the         *)
(* background job it launches on the asyncio event loop) and the identity  *)
(* verifier's signing-key resolution (JWKS cache, key-rotation retry).     *)
(*                                                                         *)
(* Scheduling model.  Every handler and the background job run on one      *)
(* asyncio event loop, so the code between two suspension points is one    *)
(* atomic action.  The job's only suspension point is the                  *)
(* asyncio.to_thread call inside LangChainService.generate_review: the     *)
(* paper fetches, the database calls and cleanup_uploaded_pdfs are         *)
(* coroutines that never yield to the loop.  Task.cancel() makes the       *)
(* job's next step raise CancelledError (a BaseException, not caught by    *)
(* "except Exception"); a job cancelled before its first step never        *)
(* executes any of its body.                                               *)
(***************************************************************************)
EXTENDS Naturals, Sequences, FiniteSets

VARIABLES
    tasks,      \* the Task table: task id -> row
    hist,       \* per task id, the statuses committed to its row, in order
    running,    \* TaskService._running_tasks (its key set)
    job,        \* per task id, the background asyncio task
    files,      \* content hashes h such that uploads/<h>.pdf exists
    last,       \* the call that has just returned, with its return value
    cache,      \* jwks_cache (JWKSCache)
    now,        \* datetime.utcnow()
    clerk,      \* the key set the identity provider currently publishes
    att,        \* per request slot, the authentication attempt in flight
    users       \* the subjects that have a local User record

vars == <<tasks, hist, running, job, files, last, cache, now, clerk, att, users>>
taskVars == <<tasks, hist, running, job, files, last>>
authVars == <<cache, now, clerk, att, users>>

-----------------------------------------------------------------------------
(* Bounds of the model *)

MaxTasks == 1
MaxPeriods == 1

TaskIds == 1..MaxTasks
Users == {1, 2}

\* the users who submit review requests; every user reads and cancels
Owners == {1}

-----------------------------------------------------------------------------
(* Paper identifiers and upload hashes *)

HashLen == 10

HexLower == {"0", "1", "a", "b"}
HexUpper == {"A", "B"}

ToLower(c) == IF c = "A" THEN "a" ELSE IF c = "B" THEN "b" ELSE c

Rep(c, n) == [i \in 1..n |-> c]

NoHash == <<>>

\* input_validation.UPLOAD_ID_PATTERN and extract_upload_hash
extract_upload_hash(pid) ==
    IF pid.upload
       /\ Len(pid.body) = HashLen
       /\ \A i \in 1..Len(pid.body) : pid.body[i] \in HexLower \cup HexUpper
    THEN [i \in 1..Len(pid.body) |-> ToLower(pid.body[i])]
    ELSE NoHash

ArxivId == [upload |-> FALSE, body |-> <<"2", "3", "0", "1", ".", "0", "0", "0", "0", "1">>]
UpLower == [upload |-> TRUE, body |-> Rep("a", HashLen)]
UpUpper == [upload |-> TRUE, body |-> Rep("A", HashLen)]
UpOther == [upload |-> TRUE, body |-> Rep("b", HashLen)]
UpShort == [upload |-> TRUE, body |-> Rep("a", HashLen - 1)]
ArxivId2 == [upload |-> FALSE, body |-> <<"2", "3", "0", "1", ".", "0", "0", "0", "0", "2">>]
UpNonHex == [upload |-> TRUE, body |-> Rep("g", HashLen)]

\* start_review_generation_task(..., max_papers: int = 10)
MaxPapersDefault == 10

\* the generate-review requests: paper_ids (never empty), topic, max_papers
Requests ==
    { [paper_ids |-> <<UpOther, UpUpper>>, topic |-> "topic_1",
       max_papers |-> MaxPapersDefault],
      [paper_ids |-> <<UpNonHex, ArxivId, UpShort, ArxivId2, UpLower>>,
       topic |-> "topic_2", max_papers |-> 2] }

PaperIdLists == { r.paper_ids : r \in Requests }

\* the hashes an upload can produce: sha256(content).hexdigest()[:10]
Hashes == { Rep("a", HashLen) }

-----------------------------------------------------------------------------
(* Task rows *)

PENDING == "PENDING"
RUNNING == "RUNNING"
COMPLETED == "COMPLETED"
FAILED == "FAILED"

NULL == "NULL"
CancelMsg == "Task cancelled by user"
NoPapersMsg == "No papers found for the given IDs"
FetchMsg == "Failed to fetch papers"
ArxivNoneMsg == "500: Failed to fetch papers: No papers found with the provided IDs"
MetadataMsg == "Failed to retrieve paper metadata"
LlmMsg == "LLM invocation failed"
DbMsg == "database error"

NoResult == [isNull |-> TRUE, citations |-> <<>>, topic |-> NULL]
NoTask == [exists |-> FALSE, user_id |-> 0, status |-> NULL,
           error_message |-> NULL, result |-> NoResult]

\* resolved: the papers fetched, before papers[:max_papers]; error: str(e) of
\* the exception the job ended with; envFault: the FAILED write or an
\* os.remove of the job's last step failed; calls: the number of times
\* generate_review has called self.llm.invoke
NoJob == [pc |-> "none", paper_ids |-> <<>>, topic |-> NULL, max_papers |-> 0,
          cancelReq |-> FALSE, calls |-> 0,
          llm |-> "none", papers |-> <<>>, resolved |-> <<>>, started |-> FALSE,
          cleaned |-> FALSE, outcome |-> "none", error |-> NULL,
          envFault |-> FALSE, cbDone |-> FALSE]

NoPid == [upload |-> FALSE, body |-> <<>>]
NoPath == <<>>

\* arg, out: the argument and the value returned, of the calls that are not
\* about one task or one paper identifier
NoCall == [op |-> "none", t |-> 0, u |-> 0, ret |-> FALSE, task |-> NoTask,
           pid |-> NoPid, path |-> NoPath, arg |-> NULL, out |-> NULL]

-----------------------------------------------------------------------------
(* Review task tracker: pure helpers *)

Terminal == {COMPLETED, FAILED}

\* str.startswith('upload_') partition of paper_ids (task_service.py 89-90)
arxiv_ids(ids) == SelectSeq(ids, LAMBDA p : ~p.upload)
uploaded_ids(ids) == SelectSeq(ids, LAMBDA p : p.upload)

\* PaperService.get_uploaded_papers: the ids whose hash is valid and whose
\* file exists, each returned as Paper(id = "upload_" + hash)
ResolvableUploads(ids, fs) ==
    SelectSeq(ids, LAMBDA p : extract_upload_hash(p) # NoHash
                              /\ extract_upload_hash(p) \in fs)

get_uploaded_papers(ids, fs) ==
    LET ok == ResolvableUploads(ids, fs)
    IN  [i \in 1..Len(ok) |-> [upload |-> TRUE, body |-> extract_upload_hash(ok[i])]]

\* papers[:max_papers]
Truncate_none(papers, max_papers) == papers

Truncate(papers, max_papers) ==
    IF Len(papers) > max_papers THEN SubSeq(papers, 1, max_papers) ELSE papers

\* file_utils.cleanup_uploaded_pdfs: the loop over paper_ids from index i on.
\* failAt is the index at which os.remove raises (0: it never raises); the
\* exception leaves the loop and is swallowed by the enclosing try.
RECURSIVE CleanFrom(_, _, _, _)
CleanFrom(ids, i, fs, failAt) ==
    IF i > Len(ids) THEN fs
    ELSE LET h == extract_upload_hash(ids[i])
         IN  IF h = NoHash \/ h \notin fs THEN CleanFrom(ids, i + 1, fs, failAt)
             ELSE IF i = failAt THEN fs
             ELSE CleanFrom(ids, i + 1, fs \ {h}, failAt)

cleanup_uploaded_pdfs_skipped(ids, fs, failAt) == fs

cleanup_uploaded_pdfs(ids, fs, failAt) == CleanFrom(ids, 1, fs, failAt)

\* the indices at which os.remove is called, hence can raise; 0: no failure
FailPoints(ids, fs) ==
    {0} \cup { i \in 1..Len(ids) : extract_upload_hash(ids[i]) \in fs }

\* what the environment can make fail in one run of the job's first step
Faults == {"none", "commit", "arxiv", "arxiv_none", "arxiv_first", "metadata"}

\* PaperService.get_papers_by_ids when the arXiv query answers: one Paper per
\* result, which may be all of the ids, only some ("arxiv_first": the first)
\* or none
get_papers_by_ids(ids, fault) ==
    IF fault = "arxiv_none" THEN <<>>
    ELSE IF fault = "arxiv_first" THEN <<ids[1]>>
    ELSE ids

\* the row after "task.status = s; db.commit()"
SetStatus(row, s) == [row EXCEPT !.status = s]

\* task_service.py 139-147: the FAILED write of the except branch, which is
\* skipped when the row is gone and swallowed when the database raises
FailedRow_noMessage(row, msg, dbOk) ==
    IF row.exists /\ dbOk THEN [row EXCEPT !.status = FAILED] ELSE row

FailedRow(row, msg, dbOk) ==
    IF row.exists /\ dbOk
    THEN [row EXCEPT !.status = FAILED, !.error_message = msg]
    ELSE row

\* the committed-status history after a write that turned row before into after
Committed(h, before, after) ==
    IF after # before THEN Append(h, after.status) ELSE h

\* task_service.py 84-86: task.status = RUNNING; db.commit()
RunningRow_skipped(row, dbOk) == row

RunningRow(row, dbOk) == IF dbOk THEN SetStatus(row, RUNNING) ELSE row

\* task_service.py 111: the await at which a requested cancellation is raised
\* as CancelledError when the job is resumed, whether or not the awaited
\* call has already returned
Interrupted_lostAfterReturn(j) == j.cancelReq /\ j.llm = "pending"

Interrupted(j) == j.cancelReq

\* cancel_task's query: Task.id == task_id, Task.user_id == user.id
CancelQuery_anyUser(t, u) == tasks[t].exists

CancelQuery(t, u) == tasks[t].exists /\ tasks[t].user_id = u

\* get_task_status's query
StatusQuery_anyUser(t, u) == tasks[t].exists

StatusQuery(t, u) == tasks[t].exists /\ tasks[t].user_id = u

\* task_service.py 192-194: background_task.cancel() on the tracked job
CancelSignal_none(j) == j

CancelSignal(j) == [j EXCEPT !.cancelReq = TRUE]

\* task_service.py 195: self._running_tasks.pop(task_id, None)
Untrack_none(rs, t) == rs

Untrack(rs, t) == rs \ {t}

-----------------------------------------------------------------------------
(* Review task tracker: operations *)

InitTasks ==
    /\ tasks = [t \in TaskIds |-> NoTask]
    /\ hist = [t \in TaskIds |-> <<>>]
    /\ running = {}
    /\ job = [t \in TaskIds |-> NoJob]
    /\ files = {}
    /\ last = NoCall

\* POST /papers/upload -> PaperService.process_uploaded_pdf stores
\* uploads/<hash>.pdf
UploadPdf(h) ==
    /\ h \notin files
    /\ files' = files \cup {h}
    /\ last' = NoCall
    /\ UNCHANGED <<tasks, hist, running, job>>
    /\ UNCHANGED authVars

\* asyncio.create_task(self._execute_review_generation(...)): the coroutine is
\* scheduled, none of its body has run
Scheduled_inline(ids, topic, max_papers) ==
    [NoJob EXCEPT !.pc = "awaiting", !.paper_ids = ids, !.topic = topic,
                  !.max_papers = max_papers, !.started = TRUE, !.llm = "pending",
                  !.calls = 1]

Scheduled(ids, topic, max_papers) ==
    [NoJob EXCEPT !.pc = "scheduled", !.paper_ids = ids, !.topic = topic,
                  !.max_papers = max_papers]

\* POST /generate-review: create_task then start_review_generation_task,
\* with no suspension point between them
GenerateReview(t, u, ids, topic, max_papers) ==
    /\ job[t].pc = "none"
    /\ \A s \in TaskIds : s < t => job[s].pc # "none"
    /\ LET row == [exists |-> TRUE, user_id |-> u, status |-> PENDING,
                   error_message |-> NULL, result |-> NoResult]
       IN  /\ tasks' = [tasks EXCEPT ![t] = row]
           /\ hist' = [hist EXCEPT ![t] = <<PENDING>>]
           /\ last' = [NoCall EXCEPT !.op = "generate", !.t = t, !.u = u,
                                     !.ret = TRUE, !.task = row]
    /\ job' = [job EXCEPT ![t] = Scheduled(ids, topic, max_papers)]
    /\ running' = running \cup {t}
    /\ UNCHANGED files
    /\ UNCHANGED authVars

\* the asyncio task once its coroutine has ended (its locals are gone)
DoneJob(j, started, outcome) ==
    [NoJob EXCEPT !.pc = "done", !.cancelReq = j.cancelReq, !.llm = j.llm,
                  !.calls = j.calls, !.started = started,
                  !.cleaned = started, !.outcome = outcome]

\* The job finishes: finally-block cleanup, then the coroutine returns or
\* re-raises CancelledError.
Finish(t, row, outcome, failAt, error, dbFault) ==
    /\ tasks' = [tasks EXCEPT ![t] = row]
    /\ hist' = [hist EXCEPT ![t] = Committed(hist[t], tasks[t], row)]
    /\ files' = cleanup_uploaded_pdfs(job[t].paper_ids, files, failAt)
    /\ job' = [job EXCEPT ![t] =
                  [DoneJob(job[t], TRUE, outcome)
                      EXCEPT !.error = error,
                             !.envFault = dbFault \/ failAt # 0]]

\* _execute_review_generation, from its first step to its first suspension
\* point (the to_thread call inside generate_review) or to its end.
JobStart(t, max_papers) ==
    /\ job[t].pc = "scheduled"
    /\ \E fault \in Faults, dbOk \in BOOLEAN,
          failAt \in FailPoints(job[t].paper_ids, files) :
         LET ids == job[t].paper_ids
             row == tasks[t]
             dbRun == fault # "commit"
             rowRun == RunningRow(row, dbRun)
             histRun == Committed(hist[t], row, rowRun)
             fromArxiv == IF arxiv_ids(ids) # <<>>
                          THEN get_papers_by_ids(arxiv_ids(ids), fault)
                          ELSE <<>>
             fromUpload == IF uploaded_ids(ids) # <<>>
                           THEN get_uploaded_papers(uploaded_ids(ids), files)
                           ELSE <<>>
             papers == fromArxiv \o fromUpload
             error == IF ~dbRun THEN DbMsg
                      ELSE IF arxiv_ids(ids) # <<>> /\ fault = "arxiv" THEN FetchMsg
                      ELSE IF arxiv_ids(ids) # <<>> /\ fromArxiv = <<>> THEN ArxivNoneMsg
                      ELSE IF fromUpload # <<>> /\ fault = "metadata" THEN MetadataMsg
                      ELSE IF papers = <<>> THEN NoPapersMsg
                      ELSE NULL
         IN  IF job[t].cancelReq
             THEN \* cancelled before its first step: no line of the body runs
                  /\ job' = [job EXCEPT ![t] = DoneJob(job[t], FALSE, "cancelled")]
                  /\ UNCHANGED <<tasks, hist, files>>
             ELSE IF ~row.exists
             THEN Finish(t, row, "missing", failAt, NULL, FALSE)
             ELSE IF error # NULL
             THEN /\ tasks' = [tasks EXCEPT ![t] = FailedRow(rowRun, error, dbOk)]
                  /\ hist' = [hist EXCEPT ![t] =
                                 Committed(histRun, rowRun, FailedRow(rowRun, error, dbOk))]
                  /\ files' = cleanup_uploaded_pdfs(ids, files, failAt)
                  /\ job' = [job EXCEPT ![t] =
                                [DoneJob(job[t], TRUE, "failed")
                                    EXCEPT !.error = error,
                                           !.envFault = ~dbOk \/ failAt # 0]]
             ELSE /\ tasks' = [tasks EXCEPT ![t] = rowRun]
                  /\ hist' = [hist EXCEPT ![t] = histRun]
                  /\ job' = [job EXCEPT ![t].pc = "awaiting", ![t].started = TRUE,
                                        ![t].llm = "pending",
                                        ![t].calls = @ + 1,
                                        ![t].resolved = papers,
                                        ![t].papers = Truncate(papers, max_papers)]
                  /\ UNCHANGED files
    /\ last' = NoCall
    /\ UNCHANGED running
    /\ UNCHANGED authVars

\* the worker thread running self.llm.invoke(prompt) returns or raises
LlmReturns(t, r) ==
    /\ job[t].pc = "awaiting"
    /\ job[t].llm = "pending"
    /\ ~job[t].cancelReq
    /\ job' = [job EXCEPT ![t].llm = r]
    /\ last' = NoCall
    /\ UNCHANGED <<tasks, hist, running, files>>
    /\ UNCHANGED authVars

\* task_service.py 113-132: status COMPLETED and the stored result
CompletedRow_noResult(row, papers, topic) == [row EXCEPT !.status = COMPLETED]

CompletedRow_noTopic(row, papers, topic) ==
    [row EXCEPT !.status = COMPLETED,
                !.result = [isNull |-> FALSE, citations |-> papers, topic |-> NULL]]

CompletedRow(row, papers, topic) ==
    [row EXCEPT !.status = COMPLETED,
                !.result = [isNull |-> FALSE, citations |-> papers, topic |-> topic]]

\* _execute_review_generation, resumed at "await generate_review(...)"
JobResume(t) ==
    /\ job[t].pc = "awaiting"
    /\ Interrupted(job[t]) \/ job[t].llm \in {"ok", "err"}
    /\ \E fault \in {"none", "commit"}, dbOk \in BOOLEAN,
          failAt \in FailPoints(job[t].paper_ids, files) :
         LET row == tasks[t]
             dbDone == fault # "commit"
             done == CompletedRow(row, job[t].papers, job[t].topic)
         IN  IF Interrupted(job[t])
             THEN Finish(t, row, "cancelled", failAt, NULL, FALSE)
             ELSE IF job[t].llm = "ok" /\ row.exists /\ dbDone
             THEN Finish(t, done, "completed", failAt, NULL, FALSE)
             ELSE IF job[t].llm = "ok"
             THEN Finish(t, FailedRow(row, DbMsg, dbOk), "failed", failAt, DbMsg, ~dbOk)
             ELSE Finish(t, FailedRow(row, LlmMsg, dbOk), "failed", failAt, LlmMsg, ~dbOk)
    /\ last' = NoCall
    /\ UNCHANGED running
    /\ UNCHANGED authVars

\* background_task.add_done_callback(lambda t: self._running_tasks.pop(...)):
\* the last reference to the finished asyncio task goes with the table entry
DoneCallback_keeps(t) ==
    /\ job[t].pc = "done"
    /\ ~job[t].cbDone
    /\ job' = [job EXCEPT ![t] = [NoJob EXCEPT !.pc = "done", !.cbDone = TRUE]]
    /\ last' = NoCall
    /\ UNCHANGED <<tasks, hist, running, files>>
    /\ UNCHANGED authVars

DoneCallback(t) ==
    /\ job[t].pc = "done"
    /\ ~job[t].cbDone
    /\ job' = [job EXCEPT ![t] = [NoJob EXCEPT !.pc = "done", !.cbDone = TRUE]]
    /\ running' = running \ {t}
    /\ last' = NoCall
    /\ UNCHANGED <<tasks, hist, files>>
    /\ UNCHANGED authVars

\* get_user_tasks(db, user, status = None, limit = 50)
ListLimit == 50

\* the rows of user u among the tasks t, t - 1, .., 1 (created_at descending),
\* filtered by status when one is given
RECURSIVE UserTasks(_, _, _)
UserTasks(u, st, t) ==
    IF t = 0 THEN <<>>
    ELSE IF tasks[t].exists /\ tasks[t].user_id = u
            /\ (st = NULL \/ tasks[t].status = st)
    THEN <<t>> \o UserTasks(u, st, t - 1)
    ELSE UserTasks(u, st, t - 1)

\* the write a handler that is no reader would make
get_user_tasks_touching(u, st) ==
    /\ last' = [NoCall EXCEPT !.op = "list", !.u = u, !.ret = TRUE]
    /\ tasks' = [t \in TaskIds |->
                    IF tasks[t].exists /\ tasks[t].user_id = u
                    THEN [tasks[t] EXCEPT !.error_message = "read"] ELSE tasks[t]]
    /\ UNCHANGED <<hist, running, job, files>>
    /\ UNCHANGED authVars

get_user_tasks(u, st) ==
    /\ LET found == UserTasks(u, st, MaxTasks)
       IN  last' = [NoCall EXCEPT !.op = "list", !.u = u, !.ret = TRUE,
                                  !.arg = st,
                                  !.out = IF Len(found) > ListLimit
                                          THEN SubSeq(found, 1, ListLimit)
                                          ELSE found]
    /\ UNCHANGED <<tasks, hist, running, job, files>>
    /\ UNCHANGED authVars

get_task_status(t, u) ==
    /\ LET found == StatusQuery(t, u)
       IN  last' = [NoCall EXCEPT !.op = "get", !.t = t, !.u = u, !.ret = found,
                                  !.task = IF found THEN tasks[t] ELSE NoTask]
    /\ UNCHANGED <<tasks, hist, running, job, files>>
    /\ UNCHANGED authVars

cancel_task(t, u) ==
    /\ LET found == CancelQuery(t, u)
       IN  IF ~found \/ tasks[t].status \notin {PENDING, RUNNING}
           THEN /\ last' = [NoCall EXCEPT !.op = "cancel", !.t = t, !.u = u]
                /\ UNCHANGED <<tasks, hist, running, job>>
           ELSE /\ job' = IF t \in running
                          THEN [job EXCEPT ![t] = CancelSignal(job[t])]
                          ELSE job
                /\ running' = Untrack(running, t)
                /\ tasks' = [tasks EXCEPT ![t].status = FAILED,
                                          ![t].error_message = CancelMsg]
                /\ hist' = [hist EXCEPT ![t] = Append(hist[t], FAILED)]
                /\ last' = [NoCall EXCEPT !.op = "cancel", !.t = t, !.u = u,
                                          !.ret = TRUE]
    /\ UNCHANGED files
    /\ UNCHANGED authVars

-----------------------------------------------------------------------------
(* The components that turn an upload identifier into a file path *)

\* the identifiers presented: runs of one character, one shorter than, as
\* long as and one longer than a content hash, and two arXiv identifiers
IdChars == {"a", "b", "A", "0", "g", "."}

PaperIds ==
    { [upload |-> TRUE, body |-> Rep(c, n)] :
        c \in IdChars, n \in (HashLen - 1)..(HashLen + 1) }
    \cup {ArxivId, ArxivId2}

\* AnalysisService._fetch_paper: paper_id.replace("upload_", "") is joined
\* to the uploads directory and probed with os.path.exists
AnalysisFetch(pid) ==
    /\ last' = IF pid.upload
               THEN [NoCall EXCEPT !.op = "analyze", !.pid = pid,
                                   !.path = pid.body, !.ret = pid.body \in files]
               ELSE [NoCall EXCEPT !.op = "analyze", !.pid = pid, !.ret = TRUE]
    /\ UNCHANGED <<tasks, hist, running, job, files>>
    /\ UNCHANGED authVars

\* PaperChatService.chat_with_paper_stream 79-94: extract_upload_hash, then
\* the path is built and probed
ChatFetch(pid) ==
    /\ LET h == extract_upload_hash(pid)
       IN  last' = IF pid.upload /\ h # NoHash
                   THEN [NoCall EXCEPT !.op = "chat", !.pid = pid,
                                       !.path = h, !.ret = h \in files]
                   ELSE [NoCall EXCEPT !.op = "chat", !.pid = pid,
                                       !.ret = ~pid.upload]
    /\ UNCHANGED <<tasks, hist, running, job, files>>
    /\ UNCHANGED authVars

\* the review pipeline's handling of one identifier: get_uploaded_papers
\* (paper_service.py 323-344) and cleanup_uploaded_pdfs (file_utils.py 8-37)
\* on the list [pid]
ReviewFiles(pid) ==
    /\ LET h == extract_upload_hash(pid)
       IN  last' = IF pid.upload /\ h # NoHash
                   THEN [NoCall EXCEPT !.op = "review", !.pid = pid,
                                       !.path = h, !.ret = h \in files]
                   ELSE [NoCall EXCEPT !.op = "review", !.pid = pid]
    /\ files' = cleanup_uploaded_pdfs(<<pid>>, files, 0)
    /\ UNCHANGED <<tasks, hist, running, job>>
    /\ UNCHANGED authVars

NextFiles ==
    \/ \E h \in Hashes : UploadPdf(h)
    \/ \E pid \in PaperIds : AnalysisFetch(pid)
    \/ \E pid \in PaperIds : ChatFetch(pid)
    \/ \E pid \in PaperIds : ReviewFiles(pid)

NextTasks ==
    \/ \E h \in Hashes : UploadPdf(h)
    \/ \E t \in TaskIds, u \in Owners, r \in Requests :
          GenerateReview(t, u, r.paper_ids, r.topic, r.max_papers)
    \/ \E t \in TaskIds : JobStart(t, job[t].max_papers)
    \/ \E t \in TaskIds, r \in {"ok", "err"} : LlmReturns(t, r)
    \/ \E t \in TaskIds : JobResume(t)
    \/ \E t \in TaskIds : DoneCallback(t)
    \/ \E t \in TaskIds, u \in Users : get_task_status(t, u)
    \/ \E u \in Users, st \in {NULL, FAILED} : get_user_tasks(u, st)
    \/ \E t \in TaskIds, u \in Users : cancel_task(t, u)

-----------------------------------------------------------------------------
(* Identity verifier: tokens, JWKS cache, signing-key resolution and the   *)
(* stages of get_current_user                                              *)

MaxAttempts == 1

Slots == 1..MaxAttempts
Kids == {"kid_a", "kid_b"}

\* JWKSCache.__init__(ttl_seconds = 3600)
TTL == 3600

\* the instants the clock is observed at: each multiple of the TTL and the
\* second before it
Times == {0} \cup { k * TTL - d : k \in 1..MaxPeriods, d \in 0..1 }

JWKS_ERROR == "JWKS_ERROR"
EXTERNAL_SERVICE_ERROR == "EXTERNAL_SERVICE_ERROR"
MISSING_TOKEN == "MISSING_TOKEN"
INVALID_TOKEN == "INVALID_TOKEN"
TOKEN_EXPIRED == "TOKEN_EXPIRED"
INTERNAL_ERROR == "INTERNAL_ERROR"

AuthRequiredMsg == "Authentication required"
InvalidTokenMsg == "Invalid token"
ExpiredMsg == "Token has expired"
AuthFailedMsg == "Authentication failed"
UnavailableMsg == "Authentication service unavailable"

\* A request's credentials.  cred: an Authorization bearer header is present;
\* header: the token header parses; kid: its key identifier ("none": no kid);
\* sig: the RS256 signature verifies under the key published for kid;
\* nbf: "future" when iat or nbf lies in the future; exp, iat, sub: "absent"
\* when the payload lacks the claim; azp: "none" when absent.
GoodToken(kid) ==
    [cred |-> TRUE, header |-> "ok", kid |-> kid, sig |-> "ok", nbf |-> "ok",
     exp |-> "future", iat |-> "present", iss |-> "ok", sub |-> "user_1",
     azp |-> "none"]

NoToken == [GoodToken("none") EXCEPT !.cred = FALSE]

\* the tokens presented where only key resolution is of interest
GoodTokens == { GoodToken(k) : k \in Kids }

\* the tokens presented to the verifier: each stage's failures, alone and
\* combined with an expiry in the past
Tokens ==
    LET g == GoodToken("kid_a")
        x == [g EXCEPT !.exp = "past"]
    IN  { g, GoodToken("kid_b"), NoToken,
          [g EXCEPT !.header = "garbage"],
          [g EXCEPT !.kid = "none"],
          [x EXCEPT !.kid = "none"],
          [g EXCEPT !.sig = "bad"],
          x,
          [x EXCEPT !.sig = "bad"],
          [x EXCEPT !.iss = "wrong"],
          [x EXCEPT !.nbf = "future"],
          [x EXCEPT !.azp = "evil"],
          [g EXCEPT !.iss = "wrong"],
          [g EXCEPT !.exp = "absent"],
          [g EXCEPT !.sub = "absent"],
          [g EXCEPT !.sub = ""],
          [g EXCEPT !.azp = "evil"],
          [g EXCEPT !.azp = ""],
          [g EXCEPT !.azp = "app"] }

\* settings.CLERK_AUTHORIZED_PARTIES.  The Settings class declares no such
\* field and ignores extra input (extra = "ignore"), so reading the attribute
\* raises AttributeError.
CLERK_AUTHORIZED_PARTIES == [declared |-> FALSE, parties |-> {}]

\* JWKSCache(): jwks = None, last_updated = None
EmptyCache == [populated |-> FALSE, keys |-> {}, last_updated |-> 0]

Idle == [pc |-> "idle", kid |-> "none", fetched |-> 0, forced |-> 0,
         key |-> "none", status |-> 0, code |-> "none",
         tok |-> NoToken, stage |-> "Start", message |-> "none",
         challenge |-> FALSE, user |-> "none", net |-> "none"]

\* JWKSCache.is_valid
is_valid_inclusive(c, t) == c.populated /\ t - c.last_updated <= TTL

is_valid(c, t) == c.populated /\ t - c.last_updated < TTL

\* JWKSCache.update
update_dropped(c, jwks, t) == c

update(c, jwks, t) == [populated |-> TRUE, keys |-> jwks, last_updated |-> t]

\* find_key_in_jwks
find_key_in_jwks(jwks, kid) == kid \in jwks

\* raise_auth_error: HTTPException(401, detail = {status, error: {code,
\* message, status_code: 401}}, headers = {"WWW-Authenticate": "Bearer"})
raise_auth_error_bare(at, message, code) ==
    [at EXCEPT !.status = 401, !.code = code, !.message = message]

raise_auth_error(at, message, code) ==
    [at EXCEPT !.status = 401, !.code = code, !.message = message,
               !.challenge = TRUE]

\* error_utils.raise_internal_error: an HTTPException with status 500
raise_internal_error(at, message, code) ==
    [at EXCEPT !.status = 500, !.code = code, !.message = message]

\* get_current_user 143: "if not kid"
MissingKid_unchecked(tok) == FALSE

MissingKid(tok) == tok.kid = "none"

\* get_current_user 129-154: the stages before key resolution.  The result is
\* the failed attempt, or the attempt with its header parsed.
HeaderStage(at) ==
    IF ~at.tok.cred
    THEN [raise_auth_error(at, AuthRequiredMsg, MISSING_TOKEN) EXCEPT !.pc = "failed"]
    ELSE IF at.tok.header # "ok" \/ MissingKid(at.tok)
    THEN [raise_auth_error(at, InvalidTokenMsg, INVALID_TOKEN) EXCEPT !.pc = "failed"]
    ELSE [at EXCEPT !.kid = at.tok.kid, !.stage = "HeaderParsed"]

\* PyJWT.decode(token, key, algorithms = ["RS256"], issuer = CLERK_ISSUER,
\* options = decode_options): the signature is verified first, then the
\* registered claims in the order iat, nbf, exp, iss
decode_claimsFirst(tok) ==
    IF tok.nbf = "future" THEN "ImmatureSignatureError"
    ELSE IF tok.exp = "past" THEN "ExpiredSignatureError"
    ELSE IF tok.sig # "ok" THEN "InvalidSignatureError"
    ELSE IF tok.iss # "ok" THEN "InvalidIssuerError"
    ELSE "payload"

decode(tok) ==
    IF tok.sig # "ok" THEN "InvalidSignatureError"
    ELSE IF tok.nbf = "future" THEN "ImmatureSignatureError"
    ELSE IF tok.exp = "past" THEN "ExpiredSignatureError"
    ELSE IF tok.iss # "ok" THEN "InvalidIssuerError"
    ELSE "payload"

\* validate_token_claims
validate_token_claims_azpRequired(tok, st) ==
    IF tok.sub = "absent" \/ tok.exp = "absent" \/ tok.iat = "absent"
    THEN "invalid"
    ELSE IF ~st.declared THEN "AttributeError"
    ELSE IF st.parties # {} /\ tok.azp \notin st.parties
    THEN "invalid"
    ELSE "valid"

validate_token_claims(tok, st) ==
    IF tok.sub = "absent" \/ tok.exp = "absent" \/ tok.iat = "absent"
    THEN "invalid"
    ELSE IF ~st.declared THEN "AttributeError"
    ELSE IF st.parties # {} /\ tok.azp \notin {"none", ""}
            /\ tok.azp \notin st.parties
    THEN "invalid"
    ELSE "valid"

\* get_signing_key 247-248 and 262: return key
KeyResolved(at) ==
    [at EXCEPT !.pc = "resolved", !.key = at.kid, !.stage = "KeyResolved"]

\* get_current_user 159-235, which runs without suspending once
\* get_signing_key has returned: decode, validate_token_claims, the subject,
\* get_or_create_user (userOk: it does not raise)
Verify_userFirst(at, userOk) ==
    [at EXCEPT !.stage = "PrincipalResolved", !.status = 200, !.user = at.tok.sub]

\* the same without the outer "except Exception" of lines 227-235: what
\* validate_token_claims raises leaves get_current_user as it is
VerifyUnder_noOuterExcept(at, userOk, st) ==
    LET tok == at.tok
        d == decode(tok)
        v == validate_token_claims(tok, st)
        sv == [at EXCEPT !.stage = "SignatureVerified"]
        cv == [at EXCEPT !.stage = "ClaimsValidated"]
    IN  IF d = "ExpiredSignatureError"
        THEN raise_auth_error(at, ExpiredMsg, TOKEN_EXPIRED)
        ELSE IF d # "payload"
        THEN raise_auth_error(at, InvalidTokenMsg, INVALID_TOKEN)
        ELSE IF v = "invalid"
        THEN raise_auth_error(sv, InvalidTokenMsg, INVALID_TOKEN)
        ELSE IF v = "AttributeError"
        THEN [sv EXCEPT !.code = "AttributeError"]
        ELSE IF tok.sub = ""
        THEN raise_auth_error(cv, InvalidTokenMsg, INVALID_TOKEN)
        ELSE IF userOk
        THEN [cv EXCEPT !.stage = "PrincipalResolved", !.status = 200,
                        !.user = tok.sub]
        ELSE raise_internal_error(cv, AuthFailedMsg, INTERNAL_ERROR)

\* st: the value of settings.CLERK_AUTHORIZED_PARTIES
VerifyUnder(at, userOk, st) ==
    LET tok == at.tok
        d == decode(tok)
        v == validate_token_claims(tok, st)
        sv == [at EXCEPT !.stage = "SignatureVerified"]
        cv == [at EXCEPT !.stage = "ClaimsValidated"]
    IN  IF d = "ExpiredSignatureError"
        THEN raise_auth_error(at, ExpiredMsg, TOKEN_EXPIRED)
        ELSE IF d # "payload"
        THEN raise_auth_error(at, InvalidTokenMsg, INVALID_TOKEN)
        ELSE IF v = "invalid"
        THEN raise_auth_error(sv, InvalidTokenMsg, INVALID_TOKEN)
        ELSE IF v = "AttributeError"
        THEN raise_auth_error(sv, AuthFailedMsg, INTERNAL_ERROR)
        ELSE IF tok.sub = ""
        THEN raise_auth_error(cv, InvalidTokenMsg, INVALID_TOKEN)
        ELSE IF userOk
        THEN [cv EXCEPT !.stage = "PrincipalResolved", !.status = 200,
                        !.user = tok.sub]
        ELSE raise_internal_error(cv, AuthFailedMsg, INTERNAL_ERROR)

Verify(at, userOk) == VerifyUnder(at, userOk, CLERK_AUTHORIZED_PARTIES)

\* user_utils.get_or_create_user: the local records after the attempt
Created(us, at) == IF at.user = "none" THEN us ELSE us \cup {at.user}

\* get_signing_key 250-252: the miss, then get_jwks(force_refresh=True),
\* which sends the request to the provider and suspends
ForceRefresh(at) == [at EXCEPT !.pc = "forced_fetch", !.forced = @ + 1]

\* get_signing_key 255-260: still missing after the refresh
StillMissing_retries(at) == ForceRefresh(at)

StillMissing(at) ==
    [raise_auth_error(at, InvalidTokenMsg, JWKS_ERROR) EXCEPT !.pc = "failed"]

\* fetch_jwks_from_clerk 57-62: httpx.HTTPError -> raise_internal_error
FetchFailed_untyped(at) ==
    [raise_auth_error(at, AuthFailedMsg, INTERNAL_ERROR) EXCEPT !.pc = "failed"]

FetchFailed(at) ==
    [raise_internal_error(at, UnavailableMsg, EXTERNAL_SERVICE_ERROR)
        EXCEPT !.pc = "failed"]

\* get_current_user 227-235: an exception without status_code
Unexpected(at) ==
    [raise_auth_error(at, AuthFailedMsg, INTERNAL_ERROR) EXCEPT !.pc = "failed"]

InitAuth ==
    /\ cache = EmptyCache
    /\ now = 0
    /\ clerk = {"kid_a"}
    /\ att = [a \in Slots |-> Idle]
    /\ users = {}

\* get_current_user up to its first suspension point: the credentials and
\* header checks, then get_signing_key(kid), whose get_jwks(force_refresh =
\* False) answers from the cache without suspending, or sends the request to
\* the provider and suspends
AuthStart(a, tok) ==
    /\ att[a].pc = "idle"
    /\ \E userOk \in BOOLEAN :
         LET at == HeaderStage([Idle EXCEPT !.tok = tok])
             next == IF at.pc = "failed" THEN at
                     ELSE IF is_valid(cache, now)
                     THEN IF find_key_in_jwks(cache.keys, at.kid)
                          THEN Verify(KeyResolved(at), userOk)
                          ELSE ForceRefresh(at)
                     ELSE [at EXCEPT !.pc = "fetch", !.fetched = @ + 1]
         IN  /\ att' = [att EXCEPT ![a] = next]
             /\ users' = Created(users, next)
    /\ UNCHANGED <<cache, now, clerk>>
    /\ UNCHANGED taskVars

\* the provider answers the pending request of attempt a with its current key
\* set; get_jwks updates the cache, get_signing_key looks the key up and
\* get_current_user runs to its end
JwksResponse(a) ==
    /\ att[a].pc \in {"fetch", "forced_fetch"}
    /\ cache' = update(cache, clerk, now)
    /\ \E userOk \in BOOLEAN :
         LET next == IF find_key_in_jwks(clerk, att[a].kid)
                     THEN Verify(KeyResolved(att[a]), userOk)
                     ELSE IF att[a].pc = "fetch" THEN ForceRefresh(att[a])
                     ELSE StillMissing(att[a])
         IN  /\ att' = [att EXCEPT ![a] = [next EXCEPT !.net = "ok"]]
             /\ users' = Created(users, next)
    /\ UNCHANGED <<now, clerk>>
    /\ UNCHANGED taskVars

\* the pending request of attempt a fails with an httpx.HTTPError
JwksFetchError(a) ==
    /\ att[a].pc \in {"fetch", "forced_fetch"}
    /\ att' = [att EXCEPT ![a] = [FetchFailed(att[a]) EXCEPT !.net = "http_error"]]
    /\ UNCHANGED <<cache, now, clerk, users>>
    /\ UNCHANGED taskVars

\* the provider answers with a body that is not JSON: response.json() raises
\* a ValueError, which is not an httpx.HTTPError
JwksBadBody(a) ==
    /\ att[a].pc \in {"fetch", "forced_fetch"}
    /\ att' = [att EXCEPT ![a] = [Unexpected(att[a]) EXCEPT !.net = "bad_body"]]
    /\ UNCHANGED <<cache, now, clerk, users>>
    /\ UNCHANGED taskVars

\* the request of attempt a has been answered; its slot serves the next one
AuthEnd(a) ==
    /\ att[a].pc \in {"resolved", "failed"}
    /\ att' = [att EXCEPT ![a] = Idle]
    /\ UNCHANGED <<cache, now, clerk, users>>
    /\ UNCHANGED taskVars

\* the identity provider rotates its signing keys
Rotate(ks) ==
    /\ ks # clerk
    /\ clerk' = ks
    /\ UNCHANGED <<cache, now, att, users>>
    /\ UNCHANGED taskVars

\* datetime.utcnow() advances
Tick(t) ==
    /\ t > now
    /\ now' = t
    /\ UNCHANGED <<cache, clerk, att, users>>
    /\ UNCHANGED taskVars

NextAuth ==
    \/ \E a \in Slots, tok \in GoodTokens : AuthStart(a, tok)
    \/ \E a \in Slots : JwksResponse(a)
    \/ \E a \in Slots : JwksFetchError(a)
    \/ \E a \in Slots : AuthEnd(a)
    \/ \E ks \in SUBSET Kids : Rotate(ks)
    \/ \E t \in Times : Tick(t)

NextVerify ==
    \/ \E a \in Slots, tok \in Tokens : AuthStart(a, tok)
    \/ \E a \in Slots : JwksResponse(a)
    \/ \E a \in Slots : JwksFetchError(a)
    \/ \E a \in Slots : JwksBadBody(a)
    \/ \E a \in Slots : AuthEnd(a)
    \/ \E ks \in SUBSET Kids : Rotate(ks)

-----------------------------------------------------------------------------
(* Token payloads: validate_token_claims, extract_user_data_from_token and  *)
(* the part of get_current_user that follows key resolution, as functions  *)
(* of the payload and of the settings                                      *)

\* the values of settings.CLERK_AUTHORIZED_PARTIES: that of the application's
\* Settings object, and a list of one party, as the test suite patches in
PartySettings ==
    { CLERK_AUTHORIZED_PARTIES, [declared |-> TRUE, parties |-> {"app"}] }

\* decoded payloads, for the claims validate_token_claims looks at
ClaimPayloads ==
    { [GoodToken("kid_a") EXCEPT !.sub = sb, !.exp = ex, !.iat = ia, !.azp = az] :
        sb \in {"absent", "", "user_1"}, ex \in {"absent", "future"},
        ia \in {"absent", "present"}, az \in {"none", "", "app", "evil"} }

\* decoded payloads, for the claims extract_user_data_from_token looks at
\* ("absent": no such claim; an absent name claim reads as "")
Subjects == {"user_1", "user_2", "None"}

UserPayloads ==
    [ sub : Subjects \cup {"absent", ""},
      email : {"absent", "", "ann@example.org"},
      given_name : {"", "Ann"}, firstName : {"", "Anna"},
      family_name : {"", "Lee"}, lastName : {"", "Li"} ]

GeneratedDomain == "@litxplore.generated"

\* what an f-string makes of payload.get("sub")
Str(sub) == IF sub = "absent" THEN "None" ELSE sub

extract_user_data_from_token_fixedEmail(p) ==
    [ email |-> IF p.email \in {"absent", ""}
                THEN "user" \o GeneratedDomain ELSE p.email,
      first_name |-> IF p.given_name # "" THEN p.given_name ELSE p.firstName,
      last_name |-> IF p.family_name # "" THEN p.family_name ELSE p.lastName ]

extract_user_data_from_token(p) ==
    LET email == IF p.email = "absent" THEN "" ELSE p.email
        clerk_id == p.sub
    IN  [ email |-> IF email = "" THEN Str(clerk_id) \o GeneratedDomain ELSE email,
          first_name |-> IF p.given_name # "" THEN p.given_name ELSE p.firstName,
          last_name |-> IF p.family_name # "" THEN p.family_name ELSE p.lastName ]

ExtractUserData(p) ==
    /\ last' = [NoCall EXCEPT !.op = "extract", !.arg = p,
                              !.out = extract_user_data_from_token(p)]
    /\ UNCHANGED <<tasks, hist, running, job, files>>
    /\ UNCHANGED authVars

ValidateClaims(tok, st) ==
    /\ last' = [NoCall EXCEPT !.op = "validate",
                              !.arg = [payload |-> tok, settings |-> st],
                              !.out = validate_token_claims(tok, st)]
    /\ UNCHANGED <<tasks, hist, running, job, files>>
    /\ UNCHANGED authVars

\* get_current_user with the signing key of the token's kid at hand: the
\* credentials and header checks, then lines 159-235
VerifyToken(tok, st, userOk) ==
    /\ LET at == HeaderStage([Idle EXCEPT !.tok = tok])
       IN  last' = [NoCall EXCEPT !.op = "verify",
                       !.arg = [tok |-> tok, settings |-> st, userOk |-> userOk],
                       !.out = IF at.pc = "failed" THEN at
                               ELSE VerifyUnder(KeyResolved(at), userOk, st)]
    /\ UNCHANGED <<tasks, hist, running, job, files>>
    /\ UNCHANGED authVars

NextClaims ==
    \/ \E p \in UserPayloads : ExtractUserData(p)
    \/ \E tok \in ClaimPayloads, st \in PartySettings : ValidateClaims(tok, st)
    \/ \E tok \in Tokens, st \in PartySettings, userOk \in BOOLEAN :
          VerifyToken(tok, st, userOk)

-----------------------------------------------------------------------------
(* analysis_helpers.invoke_llm_with_retry *)

\* the longest run of attempts the environment scripts
MaxScript == 3

\* invoke_llm_with_retry(..., max_retries: int = 2), the default that
\* _generate_at_a_glance uses, and compute_in_depth's max_retries = 3
AtAGlanceRetries == 2
InDepthRetries == 3

\* what one attempt meets: "ok"; "invoke_error": llm.invoke raises;
\* "json_error": the parser raises JSONDecodeError or ValidationError;
\* "parser_error": the parser raises another exception
Outcomes == {"ok", "invoke_error", "json_error", "parser_error"}

Scripts == [1..MaxScript -> Outcomes]

Fallback(calls) == [kind |-> "fallback", at |-> 0, calls |-> calls]

RetryFrom_once(attempt, max_retries, script) ==
    IF max_retries = 0 THEN Fallback(0)
    ELSE IF script[1] = "ok" THEN [kind |-> "parsed", at |-> 1, calls |-> 1]
    ELSE Fallback(1)

\* the loop "for attempt in range(max_retries)" from attempt on
RECURSIVE RetryFrom(_, _, _)
RetryFrom(attempt, max_retries, script) ==
    IF attempt >= max_retries THEN Fallback(attempt)
    ELSE IF script[attempt + 1] = "ok"
    THEN [kind |-> "parsed", at |-> attempt + 1, calls |-> attempt + 1]
    ELSE IF attempt < max_retries - 1
    THEN RetryFrom(attempt + 1, max_retries, script)
    ELSE Fallback(attempt + 1)

invoke_llm_with_retry(max_retries, script) == RetryFrom(0, max_retries, script)

InvokeWithRetry(op, max_retries, script) ==
    /\ last' = [NoCall EXCEPT !.op = op,
                   !.arg = [max_retries |-> max_retries, script |-> script],
                   !.out = invoke_llm_with_retry(max_retries, script)]
    /\ UNCHANGED <<tasks, hist, running, job, files>>
    /\ UNCHANGED authVars

NextRetry ==
    \/ \E n \in 0..MaxScript, sc \in Scripts : InvokeWithRetry("retry", n, sc)
    \/ \E sc \in Scripts : InvokeWithRetry("at_a_glance", AtAGlanceRetries, sc)
    \/ \E sc \in Scripts : InvokeWithRetry("in_depth", InDepthRetries, sc)

Init == InitTasks /\ InitAuth

Spec == Init /\ [][NextTasks]_vars

SpecAuth == Init /\ [][NextAuth]_vars

SpecVerify == Init /\ [][NextVerify]_vars

SpecFiles == Init /\ [][NextFiles]_vars

SpecClaims == Init /\ [][NextClaims]_vars

SpecRetry == Init /\ [][NextRetry]_vars

-----------------------------------------------------------------------------
(* Review task tracker: properties *)

Rank(s) == IF s = PENDING THEN 0 ELSE IF s = RUNNING THEN 1 ELSE 2

\* C1: once the committed status of a task is COMPLETED or FAILED no later
\* write changes the row: a terminal status is only ever the last entry of
\* the task's committed history, under every interleaving of the job with
\* cancel_task and status reads.
TerminalIsFinal ==
    \A t \in TaskIds :
        \A i \in 1..Len(hist[t]) :
            hist[t][i] \in Terminal => i = Len(hist[t])

\* a completed task on which its owner's cancel_task has just been refused
TerminalIsFinalWitness ==
    /\ last.op = "cancel" /\ ~last.ret
    /\ last.t \in TaskIds
    /\ tasks[last.t].user_id = last.u
    /\ hist[last.t] = <<PENDING, RUNNING, COMPLETED>>

\* C2 (as stated): a job that is past its last cancellable suspension point
\* when the cancellation signal arrives (its generation call has already
\* returned successfully) is out of the signal's reach and still completes.
LateCancelMissesJob ==
    \A t \in TaskIds :
        job[t].pc = "done" /\ job[t].llm = "ok" => job[t].outcome # "cancelled"

\* C2 (amended): once cancel_task has signalled a tracked job, the task stays
\* FAILED with the cancelled-by-user message: the job never completes over it,
\* even when its generation call had already returned.
CancelSticks ==
    \A t \in TaskIds :
        job[t].cancelReq =>
            tasks[t].status = FAILED /\ tasks[t].error_message = CancelMsg

\* a job cancelled after its generation call had returned successfully
CancelSticksWitness ==
    \E t \in TaskIds :
        /\ job[t].pc = "done" /\ job[t].llm = "ok" /\ job[t].outcome = "cancelled"
        /\ tasks[t].status = FAILED

\* C3: every launched job that has ended, whatever its outcome, has executed
\* cleanup_uploaded_pdfs on its paper_ids.
CleanupAlwaysRuns ==
    \A t \in TaskIds : job[t].pc = "done" => job[t].cleaned

\* C4: cancel_task on a task that does not exist, is owned by another user or
\* is already COMPLETED or FAILED returns false and changes neither the Task
\* rows nor the tracking table nor any job.
CancelRefusedFrame ==
    [][ \A t \in TaskIds, u \in Users :
          ( /\ last'.op = "cancel" /\ last'.t = t /\ last'.u = u
            /\ \/ ~tasks[t].exists
               \/ tasks[t].user_id # u
               \/ tasks[t].status \in Terminal )
          => ( /\ last'.ret = FALSE
               /\ tasks' = tasks /\ hist' = hist
               /\ running' = running /\ job' = job ) ]_vars

\* another user's cancel refused while the job is in flight
CancelRefusedWitness ==
    /\ last.op = "cancel" /\ ~last.ret
    /\ last.t \in TaskIds
    /\ tasks[last.t].exists /\ tasks[last.t].user_id # last.u
    /\ tasks[last.t].status = RUNNING
    /\ job[last.t].pc = "awaiting" /\ ~job[last.t].cancelReq
    /\ last.t \in running

\* C5: cancel_task returns true exactly when the task is owned by the caller
\* and PENDING or RUNNING; when it returns true the task is FAILED with the
\* message 'Task cancelled by user', the tracked job (if any) has been asked
\* to cancel, and the tracking table has no entry for the task.
CancelAccepted ==
    [][ \A t \in TaskIds, u \in Users :
          ( last'.op = "cancel" /\ last'.t = t /\ last'.u = u )
          => ( /\ last'.ret = TRUE <=>
                     ( /\ tasks[t].exists /\ tasks[t].user_id = u
                       /\ tasks[t].status \in {PENDING, RUNNING} )
               /\ last'.ret = TRUE =>
                     ( /\ tasks'[t].status = FAILED
                       /\ tasks'[t].error_message = CancelMsg
                       /\ t \notin running'
                       /\ t \in running => job'[t].cancelReq ) ) ]_vars

\* the owner's cancel accepted while the job awaits the generation call
CancelAcceptedWitness ==
    /\ last.op = "cancel" /\ last.ret
    /\ last.t \in TaskIds
    /\ job[last.t].pc = "awaiting" /\ job[last.t].cancelReq
    /\ hist[last.t] = <<PENDING, RUNNING, FAILED>>

\* C6: get_task_status returns the row exactly when a task with that id exists
\* and is owned by the requesting user, returns the same nothing for another
\* user's task as for a missing one, and modifies no task.
StatusReadScoped ==
    [][ \A t \in TaskIds, u \in Users :
          ( last'.op = "get" /\ last'.t = t /\ last'.u = u )
          => ( /\ last'.ret <=> ( tasks[t].exists /\ tasks[t].user_id = u )
               /\ last'.task = IF tasks[t].exists /\ tasks[t].user_id = u
                                THEN tasks[t] ELSE NoTask
               /\ tasks' = tasks /\ hist' = hist
               /\ running' = running /\ job' = job ) ]_vars

\* another user's existing task read as nothing
StatusReadWitness ==
    /\ last.op = "get" /\ ~last.ret /\ last.task = NoTask
    /\ last.t \in TaskIds
    /\ tasks[last.t].exists /\ tasks[last.t].user_id # last.u

\* C7: the committed statuses of a task only move forward along PENDING,
\* RUNNING, {COMPLETED|FAILED}, and COMPLETED is never committed unless
\* RUNNING was committed before it.
ForwardOnly ==
    \A t \in TaskIds :
        \A j \in 1..Len(hist[t]) :
            /\ \A i \in 1..(j - 1) : Rank(hist[t][i]) < Rank(hist[t][j])
            /\ hist[t][j] = COMPLETED => \E i \in 1..(j - 1) : hist[t][i] = RUNNING

\* the owner reads a task that went PENDING, RUNNING, COMPLETED
ForwardOnlyWitness ==
    /\ last.op = "get" /\ last.ret
    /\ last.t \in TaskIds
    /\ last.task.status = COMPLETED
    /\ hist[last.t] = <<PENDING, RUNNING, COMPLETED>>

-----------------------------------------------------------------------------
(* Identity verifier: properties *)

\* Key resolution under rotation: when the forced refresh of an attempt
\* returns a key set holding the token's key identifier, the attempt resolves
\* that key, the cache is replaced
\* by the refreshed set (stamped with the current time), and the attempt has
\* forced exactly one refresh, at most two fetches in all.
KeyRotationHandled ==
    [][ \A a \in Slots :
          ( /\ att[a].pc = "forced_fetch"
            /\ att'[a].pc # "forced_fetch"
            /\ att'[a].code # EXTERNAL_SERVICE_ERROR
            /\ att[a].kid \in clerk )
          => ( /\ att'[a].pc = "resolved"
               /\ att'[a].key = att[a].kid
               /\ cache' = [populated |-> TRUE, keys |-> clerk, last_updated |-> now]
               /\ att'[a].forced = 1
               /\ att'[a].fetched + att'[a].forced <= 2 ) ]_vars

\* a rotated key resolved by the forced refresh after a miss in a fresh cache
KeyRotationWitness ==
    \E a \in Slots :
        /\ att[a].pc = "resolved" /\ att[a].forced = 1 /\ att[a].fetched = 0
        /\ att[a].key = "kid_b"
        /\ cache.populated /\ "kid_b" \in cache.keys /\ cache.last_updated = now

\* C9: a lookup miss sends exactly one forced refresh; if the refreshed set
\* still lacks the key identifier the attempt fails with 401 JWKS_ERROR; a
\* failed attempt fetches nothing more; no attempt forces a second refresh.
SingleForcedRefresh ==
    [][ \A a \in Slots :
          /\ att'[a].forced <= 1
          /\ ( /\ att[a].pc = "idle" /\ att'[a].pc # "idle"
               /\ cache.populated /\ now - cache.last_updated < TTL
               /\ att'[a].kid \notin cache.keys )
             => ( att'[a].pc = "forced_fetch" /\ att'[a].forced = 1 )
          /\ ( /\ att[a].pc = "fetch" /\ att'[a].pc # "fetch"
               /\ att'[a].code # EXTERNAL_SERVICE_ERROR
               /\ att[a].kid \notin clerk )
             => ( att'[a].pc = "forced_fetch" /\ att'[a].forced = 1 )
          /\ ( /\ att[a].pc = "forced_fetch" /\ att'[a].pc # "forced_fetch"
               /\ att'[a].code # EXTERNAL_SERVICE_ERROR
               /\ att[a].kid \notin clerk )
             => ( /\ att'[a].pc = "failed"
                  /\ att'[a].status = 401 /\ att'[a].code = JWKS_ERROR
                  /\ att'[a].forced = 1 )
          /\ att[a].pc = "failed" => att'[a].pc \in {"failed", "idle"} ]_vars

\* an attempt failed with JWKS_ERROR after its one forced refresh
SingleForcedRefreshWitness ==
    \E a \in Slots :
        /\ att[a].pc = "failed" /\ att[a].code = JWKS_ERROR
        /\ att[a].forced = 1 /\ att[a].fetched = 1
        /\ att[a].kid \notin cache.keys

\* C10: the non-forced get_jwks of an attempt answers from the cache, without
\* a fetch, exactly when the cache is populated and younger than the TTL; a
\* known key identifier is then resolved with no fetch at all; a key is only
\* ever resolved from a cached set younger than the TTL or from the set just
\* fetched; no attempt makes more than one non-forced fetch.
CacheFreshness ==
    [][ \A a \in Slots :
          /\ ( att[a].pc = "idle" /\ att'[a].pc # "idle" )
             => LET fresh == cache.populated /\ now - cache.last_updated < TTL
                IN  /\ att'[a].pc # "fetch" <=> fresh
                    /\ att'[a].fetched = 0 <=> fresh
                    /\ ( fresh /\ att'[a].kid \in cache.keys )
                       => ( /\ att'[a].pc = "resolved"
                            /\ att'[a].forced = 0
                            /\ cache' = cache )
                    /\ att'[a].pc = "resolved"
                       => ( fresh /\ att'[a].kid \in cache.keys )
          /\ ( att[a].pc \in {"fetch", "forced_fetch"} /\ att'[a].pc = "resolved" )
             => ( cache'.last_updated = now /\ att'[a].key \in cache'.keys )
          /\ att'[a].fetched <= 1 ]_vars

\* a key resolved from the cache in the last second of its TTL, with no fetch
CacheFreshnessWitness ==
    \E a \in Slots :
        /\ att[a].pc = "resolved" /\ att[a].fetched = 0 /\ att[a].forced = 0
        /\ cache.populated /\ now - cache.last_updated = TTL - 1

\* C8 as stated: an attempt whose forced refresh returned the key of a valid,
\* unexpired token succeeds, that is, ends with the token's subject as its
\* principal.
RotatedKeyAuthenticates ==
    \A a \in Slots :
        ( /\ att[a].pc = "resolved" /\ att[a].forced = 1
          /\ att[a].tok \in GoodTokens )
        => ( att[a].status = 200 /\ att[a].user = att[a].tok.sub )

\* C11 as stated: every attempt whose token has its exp in the past ends with
\* 401 TOKEN_EXPIRED 'Token has expired', whether or not the signature of the
\* token is valid.
ExpiredWhateverSignature ==
    \A a \in Slots :
        ( att[a].pc = "resolved" /\ att[a].tok.exp = "past" )
        => ( /\ att[a].status = 401 /\ att[a].code = TOKEN_EXPIRED
             /\ att[a].message = ExpiredMsg )

\* C11, amended: of the tokens that reach decoding with their exp in the
\* past, those whose signature verifies and whose iat and nbf are not in the
\* future end with 401 TOKEN_EXPIRED 'Token has expired', whatever their
\* issuer, subject or authorized party; those whose signature does not verify
\* end with 401 INVALID_TOKEN 'Invalid token'.
ExpiredAfterSignature ==
    \A a \in Slots :
        ( att[a].pc = "resolved" /\ att[a].tok.exp = "past" )
        => /\ ( att[a].tok.sig = "ok" /\ att[a].tok.nbf = "ok" )
              => ( /\ att[a].status = 401 /\ att[a].code = TOKEN_EXPIRED
                   /\ att[a].message = ExpiredMsg /\ att[a].user = "none" )
           /\ att[a].tok.sig # "ok"
              => ( /\ att[a].status = 401 /\ att[a].code = INVALID_TOKEN
                   /\ att[a].message = InvalidTokenMsg /\ att[a].user = "none" )

\* an expired token of a foreign issuer, correctly signed, reported as expired
ExpiredAfterSignatureWitness ==
    \E a \in Slots :
        /\ att[a].pc = "resolved" /\ att[a].code = TOKEN_EXPIRED
        /\ att[a].tok.exp = "past" /\ att[a].tok.sig = "ok"
        /\ att[a].tok.iss = "wrong"

\* C12 as stated: a payload that passed decoding and carries sub, exp and iat
\* is rejected with 401 INVALID_TOKEN when it carries an azp that is not on a
\* non-empty configured allow-list, and passes claim validation otherwise (an
\* empty or unconfigured allow-list, or an azp on the list).
AuthorizedPartyCheck ==
    \A a \in Slots :
        LET tok == att[a].tok
            st == CLERK_AUTHORIZED_PARTIES
            configured == st.declared /\ st.parties # {}
        IN  ( /\ att[a].pc = "resolved"
              /\ tok.sig = "ok" /\ tok.nbf = "ok" /\ tok.exp = "future"
              /\ tok.iss = "ok" /\ tok.iat = "present" /\ tok.sub # "absent" )
            => IF configured /\ tok.azp # "none" /\ tok.azp \notin st.parties
               THEN att[a].status = 401 /\ att[a].code = INVALID_TOKEN
               ELSE att[a].stage \in {"ClaimsValidated", "PrincipalResolved"}

\* C13: an attempt whose token header parses but carries no kid ends, in the
\* step that starts it, with 401 INVALID_TOKEN 'Invalid token'; it never
\* enters key resolution: no key lookup result, no JWKS request sent, no
\* change of the cache.
NoKidNeverResolves ==
    [][ \A a \in Slots :
          ( /\ att'[a].pc # "idle"
            /\ att'[a].tok.cred /\ att'[a].tok.header = "ok"
            /\ att'[a].tok.kid = "none" )
          => ( /\ att[a].pc = "idle" \/ att[a] = att'[a]
               /\ att'[a].pc = "failed"
               /\ att'[a].status = 401 /\ att'[a].code = INVALID_TOKEN
               /\ att'[a].message = InvalidTokenMsg
               /\ att'[a].stage = "Start" /\ att'[a].key = "none"
               /\ att'[a].fetched = 0 /\ att'[a].forced = 0
               /\ att'[a].net = "none"
               /\ att[a].pc = "idle" => cache' = cache ) ]_vars

\* a token without kid (and expired) rejected while the cache is still empty
NoKidWitness ==
    \E a \in Slots :
        /\ att[a].pc = "failed" /\ att[a].code = INVALID_TOKEN
        /\ att[a].tok.kid = "none" /\ att[a].tok.exp = "past"
        /\ ~cache.populated

ChallengeOnEvery401 ==
    \A a \in Slots :
        att[a].status = 401
        => ( /\ att[a].challenge
             /\ att[a].message \in {AuthRequiredMsg, InvalidTokenMsg,
                                    ExpiredMsg, AuthFailedMsg}
             /\ att[a].code \in {MISSING_TOKEN, INVALID_TOKEN, TOKEN_EXPIRED,
                                 JWKS_ERROR, INTERNAL_ERROR} )

\* the 401 of an unexpected error: the provider's answer was not JSON
ChallengeWitness ==
    \E a \in Slots :
        /\ att[a].status = 401 /\ att[a].net = "bad_body"
        /\ att[a].code = INTERNAL_ERROR /\ att[a].challenge

\* C19: when the request for the key set fails with an HTTP error the attempt
\* ends with the typed error EXTERNAL_SERVICE_ERROR 'Authentication service
\* unavailable' (status 500, no principal), and the cached key set and its
\* last-refresh time are what they were before.
FetchFailureTyped ==
    [][ \A a \in Slots :
          ( att[a].pc \in {"fetch", "forced_fetch"} /\ att'[a].net = "http_error" )
          => ( /\ att'[a].pc = "failed"
               /\ att'[a].status = 500
               /\ att'[a].code = EXTERNAL_SERVICE_ERROR
               /\ att'[a].message = UnavailableMsg
               /\ att'[a].user = "none"
               /\ cache' = cache ) ]_vars

\* a forced refresh failed while the cache held an earlier key set
FetchFailureWitness ==
    \E a \in Slots :
        /\ att[a].net = "http_error" /\ att[a].forced = 1
        /\ att[a].code = EXTERNAL_SERVICE_ERROR
        /\ cache.populated

-----------------------------------------------------------------------------
(* Review pipeline and upload identifiers: properties *)

\* C16: a job whose identifiers resolve to zero papers (no arXiv result, or
\* no upload that resolves) ends, when the database and the filesystem do not
\* fail under it, with the task FAILED through PENDING, RUNNING, FAILED, the
\* error message of the no-papers exception, no result, review generation
\* never invoked, and no file of a valid upload identifier of the original
\* list left in storage; and a job that finds no arXiv identifier and no
\* resolvable upload always ends that way.
ZeroPapersFails ==
    [][ \A t \in TaskIds :
          LET ids == job[t].paper_ids
          IN  /\ ( /\ job[t].pc = "scheduled" /\ job'[t].pc = "done"
                   /\ job'[t].error \in {NoPapersMsg, ArxivNoneMsg}
                   /\ ~job'[t].envFault )
                 => ( /\ tasks'[t].status = FAILED
                      /\ tasks'[t].error_message = job'[t].error
                      /\ tasks'[t].result.isNull
                      /\ hist'[t] = <<PENDING, RUNNING, FAILED>>
                      /\ job'[t].outcome = "failed" /\ job'[t].llm = "none"
                      /\ \A i \in 1..Len(ids) :
                            extract_upload_hash(ids[i]) # NoHash
                            => extract_upload_hash(ids[i]) \notin files' )
              /\ ( /\ job[t].pc = "scheduled" /\ ~job[t].cancelReq
                   /\ job'[t].pc # "scheduled" /\ tasks[t].exists
                   /\ \A i \in 1..Len(ids) :
                         /\ ids[i].upload
                         /\ extract_upload_hash(ids[i]) \notin files )
                 => ( /\ job'[t].pc = "done" /\ job'[t].llm = "none"
                      /\ job'[t].error \in {NoPapersMsg, DbMsg} ) ]_vars

\* a job of upload identifiers none of which resolves, failed with the
\* no-papers message
ZeroPapersWitness ==
    \E t \in TaskIds :
        /\ job[t].pc = "done" /\ job[t].error = NoPapersMsg /\ ~job[t].envFault
        /\ tasks[t].status = FAILED /\ tasks[t].error_message = NoPapersMsg
        /\ job[t].llm = "none"

\* C17: a job that completes leaves the task COMPLETED with a non-null
\* result whose topic is the topic the job was started with and whose
\* citations are the first min(n, max_papers) of the n papers it resolved, in
\* order, never more than max_papers; the resolved papers list the arXiv
\* papers first, then the uploads.
CompletedResult ==
    [][ \A t \in TaskIds :
          /\ ( job[t].pc = "scheduled" /\ job'[t].pc = "awaiting" )
             => LET r == job'[t].resolved
                IN  /\ r # <<>>
                    /\ \A i \in 1..Len(r), j \in 1..Len(r) :
                          ( i < j /\ r[i].upload ) => r[j].upload
                    /\ \A i \in 1..Len(r) :
                          IF r[i].upload THEN r[i].body \in files
                          ELSE \E k \in 1..Len(job[t].paper_ids) :
                                  job[t].paper_ids[k] = r[i]
          /\ ( job[t].pc = "awaiting" /\ job'[t].outcome = "completed" )
             => LET r == job[t].resolved
                    n == Len(r)
                    m == job[t].max_papers
                    c == tasks'[t].result.citations
                IN  /\ tasks'[t].status = COMPLETED
                    /\ ~tasks'[t].result.isNull
                    /\ tasks'[t].result.topic = job[t].topic
                    /\ Len(c) = IF n < m THEN n ELSE m
                    /\ Len(c) <= m
                    /\ \A i \in 1..Len(c) : c[i] = r[i]
          /\ ( tasks'[t].status = COMPLETED /\ tasks[t].status # COMPLETED )
             => job'[t].outcome = "completed" ]_vars

\* two resolved arXiv identifiers: a completed task with two citations
CompletedResultWitness ==
    \E t \in TaskIds :
        /\ tasks[t].status = COMPLETED
        /\ tasks[t].result.topic = "topic_2"
        /\ tasks[t].result.citations = <<ArxivId, ArxivId2>>

\* C18: when the generate-review request returns, its response is the task
\* in PENDING, which is what the row holds; the job is scheduled and
\* registered and none of its body has run; and a job that fails later shows
\* in the task row alone (FAILED with the job's error message, unless that
\* very write failed), the request having returned before the job's first
\* step.
ReturnsPending ==
    /\ last.op = "generate"
       => ( /\ last.ret /\ last.task.status = PENDING
            /\ tasks[last.t] = last.task
            /\ hist[last.t] = <<PENDING>>
            /\ job[last.t].pc = "scheduled" /\ ~job[last.t].started
            /\ job[last.t].llm = "none" /\ job[last.t].outcome = "none"
            /\ last.t \in running )
    /\ \A t \in TaskIds :
          ( job[t].outcome = "failed" /\ ~job[t].envFault )
          => ( /\ tasks[t].status = FAILED
               /\ tasks[t].error_message = job[t].error
               /\ ~( last.op = "generate" /\ last.t = t ) )

\* the response to a request whose uploaded file is in storage
ReturnsPendingWitness ==
    /\ last.op = "generate" /\ last.task.status = PENDING
    /\ job[last.t].pc = "scheduled"
    /\ files # {}

\* C20 as stated: an identifier that starts with upload_ and is not upload_
\* followed by exactly HashLen lowercase hexadecimal characters is rejected
\* by every component before a path is built from it or probed.
OnlyLowerHexReachesFiles ==
    ( /\ last.op \in {"analyze", "chat", "review"}
      /\ last.pid.upload
      /\ ~( /\ Len(last.pid.body) = HashLen
            /\ \A i \in 1..Len(last.pid.body) : last.pid.body[i] \in HexLower ) )
    => ( last.path = NoPath /\ ~last.ret )

-----------------------------------------------------------------------------
(* Review task tracker: writers, failures, tracking table, row shape *)

\* C23 as stated: a row that exists is changed only by a step of the job
\* launched for it; no request handler writes to it.
SingleWriter ==
    [][ \A t \in TaskIds :
          ( tasks[t].exists /\ tasks'[t] # tasks[t] )
          => ( /\ last'.op = "none"
               /\ job[t].pc \in {"scheduled", "awaiting"}
               /\ job'[t].pc # job[t].pc ) ]_vars

\* C23 (amended): a row that exists is changed only by a step of the job
\* launched for it, or by cancel_task called by its owner while it is PENDING
\* or RUNNING, which writes FAILED and the cancellation message and nothing
\* else; get_task_status and get_user_tasks write nothing.
RowWriters ==
    [][ /\ \A t \in TaskIds :
             ( tasks[t].exists /\ tasks'[t] # tasks[t] )
             => \/ /\ last'.op = "none"
                   /\ job[t].pc \in {"scheduled", "awaiting"}
                   /\ job'[t].pc # job[t].pc
                \/ /\ last'.op = "cancel" /\ last'.t = t /\ last'.ret
                   /\ tasks[t].user_id = last'.u
                   /\ tasks[t].status \in {PENDING, RUNNING}
                   /\ tasks'[t] = [tasks[t] EXCEPT !.status = FAILED,
                                                   !.error_message = CancelMsg]
        /\ last'.op \in {"get", "list"} => tasks' = tasks ]_vars

\* the owner's cancel_task has written FAILED over the RUNNING the job wrote
RowWritersWitness ==
    /\ last.op = "cancel" /\ last.ret /\ last.t \in TaskIds
    /\ hist[last.t] = <<PENDING, RUNNING, FAILED>>
    /\ tasks[last.t].error_message = CancelMsg
    /\ job[last.t].pc = "awaiting"

\* C24: a job that ends on an exception raised after it loaded its row (the
\* RUNNING commit, a paper fetch, the no-papers check, the generation call,
\* the COMPLETED commit) ends without raising, with cleanup run over its
\* identifier list, and with the row FAILED and the exception's message as
\* error_message, unless the FAILED write itself failed, in which case the
\* row stays as the last successful write left it; a generation call that
\* raised always ends the job this way.
FailureRecorded ==
    [][ \A t \in TaskIds :
          /\ ( /\ job[t].pc \in {"scheduled", "awaiting"}
               /\ job'[t].pc = "done" /\ job'[t].outcome = "failed" )
             => ( /\ job'[t].error # NULL
                  /\ job'[t].cleaned
                  /\ \E k \in FailPoints(job[t].paper_ids, files) :
                        files' = CleanFrom(job[t].paper_ids, 1, files, k)
                  /\ \/ /\ tasks'[t].status = FAILED
                        /\ tasks'[t].error_message = job'[t].error
                     \/ /\ job'[t].envFault
                        /\ tasks'[t].status \in {PENDING, RUNNING}
                        /\ tasks'[t].error_message = NULL
                  /\ ~job'[t].envFault
                     => /\ tasks'[t].status = FAILED
                        /\ tasks'[t].error_message = job'[t].error )
          /\ ( /\ job[t].pc = "awaiting" /\ job[t].llm = "err"
               /\ ~job[t].cancelReq /\ job'[t].pc = "done" )
             => ( job'[t].outcome = "failed" /\ job'[t].error = LlmMsg ) ]_vars

\* a generation failure whose FAILED write failed too: the job has ended,
\* cleanup has run, the row still says RUNNING
FailureRecordedWitness ==
    \E t \in TaskIds :
        /\ job[t].pc = "done" /\ job[t].outcome = "failed"
        /\ job[t].error = LlmMsg /\ job[t].envFault /\ job[t].cleaned
        /\ tasks[t].status = RUNNING

\* C25 as stated: at every moment each entry of the tracking table refers to
\* a job that has not yet finished.
TrackedJobsUnfinished ==
    \A t \in running : job[t].pc \in {"scheduled", "awaiting"}

\* C25 (amended): each entry of the tracking table refers to a job that was
\* launched for that task id and has not finished, or has finished and whose
\* done callback has not run yet; the done callback removes the entry,
\* however the job ended, so that the table is empty once every launched job
\* has finished and its callback has run.
TrackedJobs ==
    [][ /\ \A t \in running' :
             \/ job'[t].pc \in {"scheduled", "awaiting"}
             \/ job'[t].pc = "done" /\ ~job'[t].cbDone
        /\ \A t \in TaskIds :
             ( job[t].pc = "done" /\ ~job[t].cbDone /\ job'[t].cbDone )
             => t \notin running'
        /\ ( \A t \in TaskIds : job'[t].pc = "none" \/ job'[t].cbDone )
           => running' = {} ]_vars

\* a completed job whose callback has run: the table is empty
TrackedJobsWitness ==
    /\ running = {}
    /\ \E t \in TaskIds :
          job[t].cbDone /\ hist[t] = <<PENDING, RUNNING, COMPLETED>>

\* C26 as stated: the task becomes FAILED on a failure of the generation
\* call only after a second attempt at the call has failed too.
ReviewLlmRetried ==
    \A t \in TaskIds :
        ( job[t].outcome = "failed" /\ job[t].error = LlmMsg )
        => job[t].calls >= 2

\* C30: a COMPLETED row has a result and no error message, a FAILED row has an
\* error message, a PENDING or RUNNING row has neither.
StatusPayload ==
    \A t \in TaskIds :
        tasks[t].exists
        => /\ tasks[t].status = COMPLETED
              => ~tasks[t].result.isNull /\ tasks[t].error_message = NULL
           /\ tasks[t].status = FAILED => tasks[t].error_message # NULL
           /\ tasks[t].status \in {PENDING, RUNNING}
              => tasks[t].result.isNull /\ tasks[t].error_message = NULL

\* a completed row next to which a cancellation was refused
StatusPayloadWitness ==
    \E t \in TaskIds :
        /\ tasks[t].status = COMPLETED /\ tasks[t].result.topic = "topic_1"
        /\ last.op = "cancel" /\ last.t = t /\ ~last.ret

-----------------------------------------------------------------------------
(* Token payloads and bounded retry: properties *)

\* C21: for a payload without an email claim, or with an empty one, the
\* email returned is the subject followed by @litxplore.generated; it differs
\* from the email derived for every payload with another subject, and two
\* calls in a row with the same subject return the same email whatever the
\* other claims are; a non-empty email claim is returned unchanged.
DerivedEmail ==
    [][ last'.op = "extract"
        => LET p == last'.arg
               lacks(q) == q.email \in {"absent", ""}
           IN  /\ ( lacks(p) /\ p.sub # "absent" )
                  => /\ last'.out.email = p.sub \o GeneratedDomain
                     /\ \A q \in UserPayloads :
                           ( lacks(q) /\ q.sub \notin {"absent", p.sub} )
                           => extract_user_data_from_token(q).email
                                 # last'.out.email
               /\ ( /\ last.op = "extract" /\ lacks(p) /\ lacks(last.arg)
                    /\ last.arg.sub = p.sub )
                  => last'.out.email = last.out.email
               /\ ~lacks(p) => last'.out.email = p.email ]_vars

\* the email derived for user_2 from a payload without an email claim
DerivedEmailWitness ==
    /\ last.op = "extract"
    /\ last.arg.sub = "user_2" /\ last.arg.email = "absent"
    /\ last.out.email = "user_2@litxplore.generated"

\* C22 as stated: a payload that lacks sub, exp or iat is rejected, and a
\* payload with all three that violates no authorized-party restriction
\* raises nothing, whatever the settings.
CompleteClaimsAccepted ==
    last.op = "validate"
    => LET tok == last.arg.payload
           st == last.arg.settings
           missing == tok.sub = "absent" \/ tok.exp = "absent" \/ tok.iat = "absent"
           foreign == /\ st.parties # {}
                      /\ tok.azp \notin {"none", ""}
                      /\ tok.azp \notin st.parties
       IN  /\ missing => last.out = "invalid"
           /\ ( ~missing /\ ~foreign ) => last.out = "valid"

\* C27: invoke_llm_with_retry calls the LLM at most max_retries times, stops
\* at the first attempt whose invocation and parsing both succeed and returns
\* what the parser returned then, returns the fallback after max_retries
\* failed attempts (after none when max_retries is 0), and ends in no other
\* way; _generate_at_a_glance allows 2 attempts, compute_in_depth 3.
BoundedRetry ==
    last.op \in {"retry", "at_a_glance", "in_depth"}
    => LET n == last.arg.max_retries
           sc == last.arg.script
           o == last.out
           ok == { k \in 1..n : sc[k] = "ok" }
       IN  /\ o.calls <= n
           /\ o.kind \in {"parsed", "fallback"}
           /\ IF ok = {}
              THEN o.kind = "fallback" /\ o.calls = n
              ELSE /\ o.kind = "parsed"
                   /\ o.at \in ok /\ \A k \in ok : o.at <= k
                   /\ o.calls = o.at
           /\ last.op = "at_a_glance" => n = 2
           /\ last.op = "in_depth" => n = 3

\* compute_in_depth's call succeeding at its third and last attempt
BoundedRetryWitness ==
    /\ last.op = "in_depth"
    /\ last.arg.script[1] = "invoke_error" /\ last.arg.script[2] = "json_error"
    /\ last.out.kind = "parsed" /\ last.out.at = 3

\* C28: under a non-empty list of authorized parties, a payload that has
\* sub, exp and iat and carries no azp claim, or an empty one, is accepted;
\* a payload with a non-empty azp is accepted exactly when its azp is on the
\* list.
AzpOptional ==
    ( /\ last.op = "validate"
      /\ last.arg.settings.declared /\ last.arg.settings.parties # {}
      /\ last.arg.payload.sub # "absent" /\ last.arg.payload.exp # "absent"
      /\ last.arg.payload.iat # "absent" )
    => LET azp == last.arg.payload.azp
       IN  /\ azp \in {"none", ""} => last.out = "valid"
           /\ azp \notin {"none", ""}
              => ( last.out = "valid" <=> azp \in last.arg.settings.parties )

\* a payload with an empty azp accepted under the list {"app"}
AzpOptionalWitness ==
    /\ last.op = "validate"
    /\ last.arg.settings.parties = {"app"}
    /\ last.arg.payload.azp = "" /\ last.arg.payload.sub = "user_1"
    /\ last.out = "valid"

\* C29: get_current_user ends with a user or with a typed error: 401 or 500
\* with an error code and a generic message.  A fault of get_or_create_user
\* gives 500 INTERNAL_ERROR "Authentication failed"; an exception without a
\* status code (here the AttributeError of the settings lookup) is turned
\* into 401 INTERNAL_ERROR "Authentication failed" with the challenge
\* header; the errors raised with a status code come out as they were raised.
NoUntypedEscape ==
    last.op = "verify"
    => LET tok == last.arg.tok
           st == last.arg.settings
           o == last.out
           decoded == /\ tok.cred /\ tok.header = "ok" /\ tok.kid # "none"
                      /\ tok.sig = "ok" /\ tok.nbf = "ok" /\ tok.exp = "future"
                      /\ tok.iss = "ok"
           claimed == /\ tok.sub # "absent" /\ tok.iat # "absent"
           allowed == \/ st.parties = {} \/ tok.azp \in {"none", ""}
                      \/ tok.azp \in st.parties
       IN  /\ o.status \in {200, 401, 500}
           /\ o.status = 200 => o.user = tok.sub /\ o.user # "none"
           /\ o.status # 200
              => /\ o.user = "none"
                 /\ o.code \in {MISSING_TOKEN, INVALID_TOKEN, TOKEN_EXPIRED,
                                INTERNAL_ERROR}
                 /\ o.message \in {AuthRequiredMsg, InvalidTokenMsg, ExpiredMsg,
                                   AuthFailedMsg}
           /\ o.status = 401 <=> o.challenge
           /\ ( decoded /\ claimed /\ st.declared /\ allowed /\ tok.sub # ""
                /\ ~last.arg.userOk )
              => /\ o.status = 500 /\ o.code = INTERNAL_ERROR
                 /\ o.message = AuthFailedMsg
           /\ ( decoded /\ claimed /\ ~st.declared )
              => /\ o.status = 401 /\ o.code = INTERNAL_ERROR
                 /\ o.message = AuthFailedMsg
           /\ ( decoded /\ ~claimed )
              => o.status = 401 /\ o.code = INVALID_TOKEN

\* a valid token whose user record could not be resolved or created
NoUntypedEscapeWitness ==
    /\ last.op = "verify" /\ ~last.arg.userOk
    /\ last.arg.tok = GoodToken("kid_a")
    /\ last.out.status = 500 /\ last.out.code = INTERNAL_ERROR
    /\ last.out.message = AuthFailedMsg

====
